---- MODULE Spec2Model ----
(***************************************************************************)
(* Transaction construction, canonical (RLP) encoding and two-tier signing *)
(* of the Flow Rust SDK (src/src/lib.rs).                                  *)
(*                                                                         *)
(* Byte strings (Vec<u8>) are sequences of naturals 0..255; hex strings    *)
(* (String) are sequences of one-character strings; a usize is four        *)
(* 16-bit limbs, least significant first, so that its 64-bit wrap-around   *)
(* is computed exactly.                                                    *)
(***************************************************************************)
EXTENDS Integers, Sequences, FiniteSets, TLC

VARIABLES
    profile,     \* build profile of the crate: overflow checks on ("debug") or off ("release")
    pad_pc,      \* position inside padding(): idle, loop, returned, panicked, aborted
    pad_arg,     \* the arguments padding() was called with: [vec, count]
    pad_vec,     \* padding(): the vector being padded (the &mut Vec<u8>)
    pad_i,       \* padding(): the local counter i (usize)
    pc,          \* position of the caller: start, built, signed, failed, panicked
    buildIn,     \* the arguments the build_transaction call received
    tx,          \* the current Transaction value (NoTx before build_transaction)
    inTx,        \* the Transaction the last sign_transaction call received
    inPayload,   \* the payload signer list the last sign_transaction call received
    inEnvelope,  \* the envelope signer list the last sign_transaction call received
    signedMsgs,  \* the calls of sign() made by the last sign_transaction call
    enc,         \* outputs of payload_from_transaction / envelope_from_transaction
    uf_pc,       \* Argument::ufix64: idle, returned, panicked
    uf_value,    \* Argument::ufix64: the f64 the call received
    uf_arg,      \* Argument::ufix64: the Argument the call constructed
    poll_pc,     \* create_account: idle, loop (253), sleeping (255), querying
                 \* (256), looking_up (282-284), returned, failed, panicked,
                 \* cancelled (the future was dropped while suspended)
    poll_i,      \* create_account: the loop counter i
    poll_queries,\* create_account: calls of get_transaction_result made so far
    poll_time,   \* create_account: the delay `time`, in milliseconds
    poll_res,    \* create_account: the last transaction result received
    poll_lookup, \* create_account: how the lookup of the new account went
    poll_err     \* create_account: the message of the error returned

vars == <<profile, pad_pc, pad_arg, pad_vec, pad_i, pc, buildIn, tx, inTx,
          inPayload, inEnvelope, signedMsgs, enc, uf_pc, uf_value, uf_arg,
          poll_pc, poll_i, poll_queries, poll_time, poll_res, poll_lookup,
          poll_err>>

padVars == <<pad_pc, pad_arg, pad_vec, pad_i>>
txVars == <<pc, buildIn, tx, inTx, inPayload, inEnvelope, signedMsgs, enc>>
argVars == <<uf_pc, uf_value, uf_arg>>
pollVars == <<poll_pc, poll_i, poll_queries, poll_time, poll_res, poll_lookup, poll_err>>

-----------------------------------------------------------------------------
(* Bounds of the model *)

\* longest byte string handed to padding() in PadSpec
MaxLen == 3
\* widest padding width tried in PadSpec
MaxWidth == 3
\* bytes a Vec<u8> may hold before the allocator gives up (stands for the
\* memory of the machine; every vector of a successful run is shorter)
MemCap == 40
\* longest payload / envelope signer list
MaxSigners == 2

-----------------------------------------------------------------------------
(* Byte strings and usize arithmetic *)

Zeros(n) == [k \in 1..n |-> 0]

Max(a, b) == IF a >= b THEN a ELSE b
Min(a, b) == IF a <= b THEN a ELSE b

\* Body applied to the value of v (v is computed once)
With(v, Body(_)) == CHOOSE out \in {Body(x) : x \in {v}} : TRUE

LimbBase == 65536
UsizeLimbs == 4

\* n as usize, for 0 <= n < 2^16 (every length and width of the model)
ToUsize(n) == [k \in 1..UsizeLimbs |-> IF k = 1 THEN n ELSE 0]

UsizeIsZero(a) == \A k \in 1..UsizeLimbs : a[k] = 0

\* borrow into limb k of a - b
RECURSIVE Borrow(_, _, _)
Borrow(a, b, k) ==
    IF k = 1 THEN 0
    ELSE IF a[k - 1] - b[k - 1] - Borrow(a, b, k - 1) < 0 THEN 1 ELSE 0

\* a < b as unsigned 64-bit integers
UsizeLess(a, b) == Borrow(a, b, UsizeLimbs + 1) = 1

\* a - b modulo 2^64 (usize::wrapping_sub, what `-=` does without overflow checks)
UsizeWrappingSub(a, b) ==
    [k \in 1..UsizeLimbs |-> (a[k] - b[k] - Borrow(a, b, k) + LimbBase) % LimbBase]

UsizeDec(a) == UsizeWrappingSub(a, ToUsize(1))

-----------------------------------------------------------------------------
(* padding(vec, count), lib.rs 637-644 *)

NoArg == [vec |-> <<>>, count |-> 0]

\* the `while i > 0 { vec.push(0); i -= 1; }` loop, run to its end: it pushes
\* i zero bytes and returns, unless the vector cannot grow that far, where the
\* allocator aborts the process (PadPush and PadReturn are its single steps)
PadLoop(vec, i) ==
    LET room == Max(MemCap - Len(vec), 0)
    IN IF UsizeLess(ToUsize(room), i)
       THEN [status |-> "abort", vec |-> vec \o Zeros(room)]
       ELSE [status |-> "ok", vec |-> vec \o Zeros(i[1])]

\* the whole call under build profile prof: `i -= vec.len()` panics on
\* overflow when overflow checks are compiled in and wraps otherwise
padding(vec, count, prof) ==
    IF prof = "debug" /\ UsizeLess(ToUsize(count), ToUsize(Len(vec)))
    THEN [status |-> "panic", vec |-> vec]
    ELSE PadLoop(vec, UsizeWrappingSub(ToUsize(count), ToUsize(Len(vec))))

\* inputs of padding() tried in PadSpec
PadBytes == {0, 1, 255}

RECURSIVE SeqsUpTo(_, _)
SeqsUpTo(S, n) ==
    IF n = 0 THEN {<<>>}
    ELSE LET shorter == SeqsUpTo(S, n - 1)
         IN shorter \cup {Append(s, x) : s \in {t \in shorter : Len(t) = n - 1}, x \in S}

\* lines 638-639: let mut i = count; i -= vec.len();
PadCall(b, w) ==
    /\ pad_pc = "idle"
    /\ pad_arg' = [vec |-> b, count |-> w]
    /\ pad_vec' = b
    /\ IF profile = "debug" /\ UsizeLess(ToUsize(w), ToUsize(Len(b)))
       THEN /\ pad_pc' = "panicked"
            /\ pad_i' = ToUsize(w)
       ELSE /\ pad_pc' = "loop"
            /\ pad_i' = UsizeWrappingSub(ToUsize(w), ToUsize(Len(b)))
    /\ UNCHANGED <<profile, argVars, pollVars, txVars>>

\* lines 640-643: one iteration of the loop
PadPush ==
    /\ pad_pc = "loop"
    /\ ~UsizeIsZero(pad_i)
    /\ IF Len(pad_vec) >= MemCap
       THEN /\ pad_pc' = "aborted"
            /\ UNCHANGED <<pad_vec, pad_i>>
       ELSE /\ pad_vec' = Append(pad_vec, 0)
            /\ pad_i' = UsizeDec(pad_i)
            /\ pad_pc' = "loop"
    /\ UNCHANGED <<profile, argVars, pollVars, pad_arg, txVars>>

\* line 644: the loop condition is false, the function returns
PadReturn ==
    /\ pad_pc = "loop"
    /\ UsizeIsZero(pad_i)
    /\ pad_pc' = "returned"
    /\ UNCHANGED <<profile, argVars, pollVars, pad_arg, pad_vec, pad_i, txVars>>

-----------------------------------------------------------------------------
(* hex::decode *)

HexDigits == <<"0", "1", "2", "3", "4", "5", "6", "7", "8", "9",
               "a", "b", "c", "d", "e", "f">>
HexUpper == <<"0", "1", "2", "3", "4", "5", "6", "7", "8", "9",
              "A", "B", "C", "D", "E", "F">>

IsHexChar(c) == \E k \in 1..16 : HexDigits[k] = c \/ HexUpper[k] = c

HexVal(c) == (CHOOSE k \in 1..16 : HexDigits[k] = c \/ HexUpper[k] = c) - 1

\* hex::decode(s): an odd number of characters or a character that is no hex
\* digit is an error, otherwise each pair of digits is one byte
FromHex(s) ==
    IF Len(s) % 2 # 0 \/ \E k \in 1..Len(s) : ~IsHexChar(s[k])
    THEN [status |-> "err", bytes |-> <<>>]
    ELSE [status |-> "ok",
          bytes |-> [k \in 1..(Len(s) \div 2) |->
                        16 * HexVal(s[2 * k - 1]) + HexVal(s[2 * k])]]

-----------------------------------------------------------------------------
(* rlp::RlpStream, as lib.rs 688-718 and 728-746 drive it *)

\* big-endian bytes of n without leading zero bytes (0 is the empty string)
RECURSIVE ToBeBytes(_)
ToBeBytes(n) == IF n = 0 THEN <<>> ELSE Append(ToBeBytes(n \div 256), n % 256)

\* buf with bytes ins inserted so that they start at offset pos (0-based)
InsertAt(buf, pos, ins) ==
    SubSeq(buf, 1, pos) \o ins \o SubSeq(buf, pos + 1, Len(buf))

\* buf with the byte at offset pos (0-based) set to b
SetAt(buf, pos, b) == [buf EXCEPT ![pos + 1] = b]

RlpNew == [buf |-> <<>>, open |-> <<>>, bad |-> FALSE]

\* RlpStream::note_appended: count n items into the innermost open list and
\* close every list that became complete, writing its header
RECURSIVE NoteAppended(_, _)
NoteAppended(s, n) ==
    IF s.bad \/ s.open = <<>> THEN s
    ELSE LET top == s.open[Len(s.open)]
             cur == top.current + n
         IN IF cur > top.max THEN [s EXCEPT !.bad = TRUE]
            ELSE IF cur = top.max
            THEN LET len == Len(s.buf) - top.position
                     sized == IF len <= 55
                              THEN SetAt(s.buf, top.position - 1, 192 + len)
                              ELSE SetAt(InsertAt(s.buf, top.position, ToBeBytes(len)),
                                         top.position - 1, 247 + Len(ToBeBytes(len)))
                 IN NoteAppended([s EXCEPT !.buf = sized,
                                           !.open = SubSeq(s.open, 1, Len(s.open) - 1)], 1)
            ELSE [s EXCEPT !.open[Len(s.open)].current = cur]

\* RlpStream::begin_list(len)
BeginList(s, len) ==
    IF len = 0
    THEN NoteAppended([s EXCEPT !.buf = Append(s.buf, 192)], 1)
    ELSE [s EXCEPT !.buf = Append(s.buf, 0),
                   !.open = Append(s.open, [position |-> Len(s.buf) + 1,
                                            current |-> 0, max |-> len])]

\* the bytes BasicEncoder::encode_value writes for a byte string
EncodeValue(value) ==
    IF Len(value) = 0 THEN <<128>>
    ELSE IF Len(value) = 1 /\ value[1] < 128 THEN value
    ELSE IF Len(value) <= 55 THEN <<128 + Len(value)>> \o value
    ELSE <<183 + Len(ToBeBytes(Len(value)))>> \o ToBeBytes(Len(value)) \o value

\* RlpStream::append(&Vec<u8>)
AppendBytes(s, value) == NoteAppended([s EXCEPT !.buf = s.buf \o EncodeValue(value)], 1)

\* RlpStream::append(&u32) / append(&u64)
AppendUint(s, n) == AppendBytes(s, ToBeBytes(n))

RECURSIVE AppendEach(_, _, _)
AppendEach(s, items, k) ==
    IF k > Len(items) THEN s ELSE AppendEach(AppendBytes(s, items[k]), items, k + 1)

\* RlpStream::out(): the buffer, or a panic while a list is still open
StreamOut(s) ==
    IF s.bad \/ s.open # <<>> THEN [status |-> "panic", bytes |-> <<>>]
    ELSE [status |-> "ok", bytes |-> s.buf]

-----------------------------------------------------------------------------
(* Transaction, build_transaction and the two encodings *)

AddressWidth == 8
RefBlockWidth == 32
TagWidth == 32
SecretKeyLen == 32
SignatureLen == 64

NoTx == [none |-> TRUE]
\* no call of build_transaction yet
NoIn == [none |-> TRUE, call |-> "build_transaction"]

\* the first occurrence of each element of s, in order
RECURSIVE Dedup(_)
Dedup(s) ==
    IF s = <<>> THEN <<>>
    ELSE LET r == Dedup(SubSeq(s, 1, Len(s) - 1))
         IN IF \E k \in 1..Len(r) : r[k] = s[Len(s)] THEN r ELSE Append(r, s[Len(s)])

\* build_transaction, but an authorizer named twice is kept once
build_transaction_Dedup(script, arguments, reference_block_id, gas_limit, proposer, authorizers, payer) ==
    IF \/ \E k \in 1..Len(authorizers) : FromHex(authorizers[k]).status # "ok"
       \/ FromHex(payer).status # "ok"
    THEN [status |-> "panic", tx |-> NoTx]
    ELSE [status |-> "ok",
          tx |-> [script |-> script,
                  arguments |-> arguments,
                  reference_block_id |-> reference_block_id,
                  gas_limit |-> gas_limit,
                  proposal_key |-> proposer,
                  authorizers |-> Dedup([k \in 1..Len(authorizers) |->
                                            FromHex(authorizers[k]).bytes]),
                  payload_signatures |-> <<>>,
                  envelope_signatures |-> <<>>,
                  payer |-> FromHex(payer).bytes]]

\* build_transaction, lib.rs 654-677: the two hex::decode(..).unwrap() panic
\* on a malformed string; nothing else is checked
build_transaction(script, arguments, reference_block_id, gas_limit, proposer, authorizers, payer) ==
    IF \/ \E k \in 1..Len(authorizers) : FromHex(authorizers[k]).status # "ok"
       \/ FromHex(payer).status # "ok"
    THEN [status |-> "panic", tx |-> NoTx]
    ELSE [status |-> "ok",
          tx |-> [script |-> script,
                  arguments |-> arguments,
                  reference_block_id |-> reference_block_id,
                  gas_limit |-> gas_limit,
                  proposal_key |-> proposer,
                  authorizers |-> [k \in 1..Len(authorizers) |->
                                      FromHex(authorizers[k]).bytes],
                  payload_signatures |-> <<>>,
                  envelope_signatures |-> <<>>,
                  payer |-> FromHex(payer).bytes]]

\* AppendSignatures, but each triple starts with the key index of its signer
RECURSIVE AppendSignatures_KeyIndex(_, _, _)
AppendSignatures_KeyIndex(s, sigs, k) ==
    IF k > Len(sigs) THEN s
    ELSE LET s1 == BeginList(s, 3)
             s2 == AppendUint(s1, sigs[k].key_id)
             s3 == AppendUint(s2, sigs[k].key_id)
             s4 == AppendBytes(s3, sigs[k].signature)
         IN AppendSignatures_KeyIndex(s4, sigs, k + 1)

\* sigs in ascending order of key index
RECURSIVE SortedByKey(_)
SortedByKey(sigs) ==
    IF sigs = <<>> THEN <<>>
    ELSE LET m == CHOOSE i \in 1..Len(sigs) :
                      \A j \in 1..Len(sigs) : sigs[i].key_id <= sigs[j].key_id
         IN <<sigs[m]>> \o SortedByKey(SubSeq(sigs, 1, m - 1) \o
                                        SubSeq(sigs, m + 1, Len(sigs)))

\* AppendSignatures, but the signatures are listed in the order of their key
\* indices instead of the order of the signers
RECURSIVE AppendSignatures_SortedByKey(_, _, _)
AppendSignatures_SortedByKey(s, sigs, k) ==
    IF k > Len(sigs) THEN s
    ELSE LET sorted == SortedByKey(sigs)
             s1 == BeginList(s, 3)
             s2 == AppendUint(s1, k - 1)
             s3 == AppendUint(s2, sorted[k].key_id)
             s4 == AppendBytes(s3, sorted[k].signature)
         IN AppendSignatures_SortedByKey(s4, sigs, k + 1)

\* lib.rs 710-716: one [i, key_id, signature] list per payload signature
RECURSIVE AppendSignatures(_, _, _)
AppendSignatures(s, sigs, k) ==
    IF k > Len(sigs) THEN s
    ELSE LET s1 == BeginList(s, 3)
             s2 == AppendUint(s1, k - 1)
             s3 == AppendUint(s2, sigs[k].key_id)
             s4 == AppendBytes(s3, sigs[k].signature)
         IN AppendSignatures(s4, sigs, k + 1)

\* envelope_from_transaction, but the payer is padded to 8 bytes first
envelope_from_transaction_PaddedPayer(transaction, payload_signatures, prof) ==
    LET proposal_key == transaction.proposal_key
        proposal_address == padding(proposal_key.address, AddressWidth, prof)
        ref_block == padding(transaction.reference_block_id, RefBlockWidth, prof)
        payer == padding(transaction.payer, AddressWidth, prof)
        s0 == BeginList(RlpNew, 2)
        s1 == BeginList(s0, 9)
        s2 == AppendBytes(s1, transaction.script)
        s3 == BeginList(s2, Len(transaction.arguments))
        s4 == AppendEach(s3, transaction.arguments, 1)
        s5 == AppendBytes(s4, ref_block.vec)
        s6 == AppendUint(s5, transaction.gas_limit)
        s7 == AppendBytes(s6, proposal_address.vec)
        s8 == AppendUint(s7, proposal_key.key_id)
        s9 == AppendUint(s8, proposal_key.sequence_number)
        s10 == AppendBytes(s9, payer.vec)
        s11 == BeginList(s10, Len(transaction.authorizers))
        s12 == AppendEach(s11, transaction.authorizers, 1)
        s13 == BeginList(s12, Len(payload_signatures))
        s14 == AppendSignatures(s13, payload_signatures, 1)
    IN IF proposal_address.status # "ok"
       THEN [status |-> proposal_address.status, bytes |-> <<>>]
       ELSE IF ref_block.status # "ok"
       THEN [status |-> ref_block.status, bytes |-> <<>>]
       ELSE StreamOut(s14)

\* envelope_from_transaction, lib.rs 679-719
envelope_from_transaction(transaction, payload_signatures, prof) ==
    LET proposal_key == transaction.proposal_key
        proposal_address == padding(proposal_key.address, AddressWidth, prof)
        ref_block == padding(transaction.reference_block_id, RefBlockWidth, prof)
        s0 == BeginList(RlpNew, 2)
        s1 == BeginList(s0, 9)
        s2 == AppendBytes(s1, transaction.script)
        s3 == BeginList(s2, Len(transaction.arguments))
        s4 == AppendEach(s3, transaction.arguments, 1)
        s5 == AppendBytes(s4, ref_block.vec)
        s6 == AppendUint(s5, transaction.gas_limit)
        s7 == AppendBytes(s6, proposal_address.vec)
        s8 == AppendUint(s7, proposal_key.key_id)
        s9 == AppendUint(s8, proposal_key.sequence_number)
        s10 == AppendBytes(s9, transaction.payer)
        s11 == BeginList(s10, Len(transaction.authorizers))
        s12 == AppendEach(s11, transaction.authorizers, 1)
        s13 == BeginList(s12, Len(payload_signatures))
        s14 == AppendSignatures(s13, payload_signatures, 1)
    IN IF proposal_address.status # "ok"
       THEN [status |-> proposal_address.status, bytes |-> <<>>]
       ELSE IF ref_block.status # "ok"
       THEN [status |-> ref_block.status, bytes |-> <<>>]
       ELSE StreamOut(s14)

\* payload_from_transaction, lib.rs 721-747
payload_from_transaction(transaction, prof) ==
    LET proposal_key == transaction.proposal_key
        proposal_address == padding(proposal_key.address, AddressWidth, prof)
        ref_block == padding(transaction.reference_block_id, RefBlockWidth, prof)
        s1 == BeginList(RlpNew, 9)
        s2 == AppendBytes(s1, transaction.script)
        s3 == BeginList(s2, Len(transaction.arguments))
        s4 == AppendEach(s3, transaction.arguments, 1)
        s5 == AppendBytes(s4, ref_block.vec)
        s6 == AppendUint(s5, transaction.gas_limit)
        s7 == AppendBytes(s6, proposal_address.vec)
        s8 == AppendUint(s7, proposal_key.key_id)
        s9 == AppendUint(s8, proposal_key.sequence_number)
        s10 == AppendBytes(s9, transaction.payer)
        s11 == BeginList(s10, Len(transaction.authorizers))
        s12 == AppendEach(s11, transaction.authorizers, 1)
    IN IF proposal_address.status # "ok"
       THEN [status |-> proposal_address.status, bytes |-> <<>>]
       ELSE IF ref_block.status # "ok"
       THEN [status |-> ref_block.status, bytes |-> <<>>]
       ELSE StreamOut(s12)

-----------------------------------------------------------------------------
(* sign and sign_transaction *)

\* b"FLOW-V0.0-transaction"
DomainTag == <<70, 76, 79, 87, 45, 86, 48, 46, 48, 45,
               116, 114, 97, 110, 115, 97, 99, 116, 105, 111, 110>>

\* order of the NIST P-256 group, big-endian
P256Order == <<255, 255, 255, 255, 0, 0, 0, 0, 255, 255, 255, 255, 255, 255, 255, 255,
               188, 230, 250, 173, 167, 23, 158, 132, 243, 185, 202, 194, 252, 99, 37, 81>>

\* a < b for byte strings of one length, read as big-endian numbers
BytesLess(a, b) ==
    \E k \in 1..Len(a) : a[k] < b[k] /\ \A j \in 1..(k - 1) : a[j] = b[j]

\* SecretKey::from_be_bytes accepts exactly the 32-byte scalars in 1..order-1
ValidSecretKey(bytes) ==
    /\ Len(bytes) = SecretKeyLen
    /\ \E k \in 1..Len(bytes) : bytes[k] # 0
    /\ BytesLess(bytes, P256Order)

\* a checksum of bytes[lo..hi] that depends on every byte and on their order
RECURSIVE Digest(_, _, _)
Digest(bytes, lo, hi) ==
    IF lo > hi THEN 1
    ELSE IF lo = hi THEN bytes[lo] + 2
    ELSE LET mid == (lo + hi) \div 2
         IN (Digest(bytes, lo, mid) * 31 + Digest(bytes, mid + 1, hi) * 17 + hi - lo) % 65521

\* the 64 signature bytes of SigningKey::sign: a deterministic function of the
\* key and of the whole message (a checksum stands for ECDSA over P-256)
EcdsaSign(key, message) ==
    With((Digest(key, 1, Len(key)) * 257 + Digest(message, 1, Len(message))) % 65521,
         LAMBDA h : [k \in 1..SignatureLen |->
                        (h \div (1 + (k % 7)) + k * (1 + (h % 251))) % 256])

\* sign, lib.rs 749-754: both `?` return the error to the caller
sign(message, private_key) ==
    LET decoded == FromHex(private_key)
    IN IF decoded.status # "ok"
       THEN [status |-> "err", error |-> "DecodeError", signature |-> <<>>]
       ELSE IF ~ValidSecretKey(decoded.bytes)
       THEN [status |-> "err", error |-> "CryptoError", signature |-> <<>>]
       ELSE [status |-> "ok", error |-> "",
             signature |-> EcdsaSign(decoded.bytes, message)]

\* how a run of sign_transaction ends without a transaction
Stopped(status, error, log) ==
    [status |-> status, error |-> error, sigs |-> <<>>, log |-> log]

\* a loop body that did not get to push a signature
NoRecord(status, error) ==
    [status |-> status, error |-> error, record |-> <<>>, message |-> <<>>]

\* SignWith, but the record carries the decoded address as it is
SignWith_RawAddress(encoded_payload, signer, prof) ==
    LET domain_tag == padding(DomainTag, TagWidth, prof)
        decoded == FromHex(signer.address)
    IN IF encoded_payload.status # "ok" THEN NoRecord(encoded_payload.status, "")
       ELSE IF decoded.status # "ok" THEN NoRecord("panic", "")
       ELSE With(domain_tag.vec \o encoded_payload.bytes, LAMBDA fully_encoded :
            With(sign(fully_encoded, signer.private_key), LAMBDA signed :
                IF signed.status # "ok" THEN NoRecord("err", signed.error)
                ELSE [status |-> "ok", error |-> "",
                      record |-> [address |-> decoded.bytes, key_id |-> signer.key_id,
                                  signature |-> signed.signature],
                      message |-> fully_encoded]))

\* SignWith, but the zero bytes are put in front of the domain tag
SignWith_ZerosBeforeTag(encoded_payload, signer, prof) ==
    LET decoded == FromHex(signer.address)
        addr == padding(decoded.bytes, AddressWidth, prof)
    IN IF encoded_payload.status # "ok" THEN NoRecord(encoded_payload.status, "")
       ELSE IF decoded.status # "ok" THEN NoRecord("panic", "")
       ELSE IF addr.status # "ok" THEN NoRecord(addr.status, "")
       ELSE With(Zeros(TagWidth - Len(DomainTag)) \o DomainTag \o encoded_payload.bytes,
            LAMBDA fully_encoded :
            With(sign(fully_encoded, signer.private_key), LAMBDA signed :
                IF signed.status # "ok" THEN NoRecord("err", signed.error)
                ELSE [status |-> "ok", error |-> "",
                      record |-> [address |-> addr.vec, key_id |-> signer.key_id,
                                  signature |-> signed.signature],
                      message |-> fully_encoded]))

\* lib.rs 780-792 and 798-810, the same in both loops: pad the domain tag, put
\* it in front of the encoding, decode and pad the signer's address, sign
SignWith(encoded_payload, signer, prof) ==
    LET domain_tag == padding(DomainTag, TagWidth, prof)
        decoded == FromHex(signer.address)
        addr == padding(decoded.bytes, AddressWidth, prof)
    IN IF encoded_payload.status # "ok" THEN NoRecord(encoded_payload.status, "")
       ELSE IF domain_tag.status # "ok" THEN NoRecord(domain_tag.status, "")
       ELSE IF decoded.status # "ok" THEN NoRecord("panic", "")
       ELSE IF addr.status # "ok" THEN NoRecord(addr.status, "")
       ELSE With(domain_tag.vec \o encoded_payload.bytes, LAMBDA fully_encoded :
            With(sign(fully_encoded, signer.private_key), LAMBDA signed :
                IF signed.status # "ok" THEN NoRecord("err", signed.error)
                ELSE [status |-> "ok", error |-> "",
                      record |-> [address |-> addr.vec, key_id |-> signer.key_id,
                                  signature |-> signed.signature],
                      message |-> fully_encoded]))

\* lib.rs 778-793: the payload loop from its k-th signer on; payload is the
\* local vector built so far, log the calls of sign() that succeeded
RECURSIVE PayloadLoop(_, _, _, _, _, _)
PayloadLoop(built_transaction, signers, k, payload, log, prof) ==
    IF k > Len(signers)
    THEN [status |-> "ok", error |-> "", sigs |-> payload, log |-> log]
    ELSE With(SignWith(payload_from_transaction(built_transaction, prof), signers[k], prof),
         LAMBDA step :
            IF step.status # "ok" THEN Stopped(step.status, step.error, log)
            ELSE PayloadLoop(built_transaction, signers, k + 1,
                     Append(payload, step.record),
                     Append(log, [role |-> "payload", index |-> k,
                                  message |-> step.message]),
                     prof))

\* EnvelopeLoop, but the envelope signers sign the transaction body alone
RECURSIVE EnvelopeLoop_BodyOnly(_, _, _, _, _, _, _)
EnvelopeLoop_BodyOnly(built_transaction, signers, k, payload, envelope, log, prof) ==
    IF k > Len(signers)
    THEN [status |-> "ok", error |-> "", sigs |-> envelope, log |-> log]
    ELSE With(SignWith(payload_from_transaction(built_transaction, prof), signers[k], prof),
         LAMBDA step :
            IF step.status # "ok" THEN Stopped(step.status, step.error, log)
            ELSE EnvelopeLoop_BodyOnly(built_transaction, signers, k + 1, payload,
                     Append(envelope, step.record),
                     Append(log, [role |-> "envelope", index |-> k,
                                  message |-> step.message]),
                     prof))

\* lib.rs 795-811: the envelope loop; payload is the local vector the payload
\* loop of this call built
RECURSIVE EnvelopeLoop(_, _, _, _, _, _, _)
EnvelopeLoop(built_transaction, signers, k, payload, envelope, log, prof) ==
    IF k > Len(signers)
    THEN [status |-> "ok", error |-> "", sigs |-> envelope, log |-> log]
    ELSE With(SignWith(envelope_from_transaction(built_transaction, payload, prof),
                       signers[k], prof),
         LAMBDA step :
            IF step.status # "ok" THEN Stopped(step.status, step.error, log)
            ELSE EnvelopeLoop(built_transaction, signers, k + 1, payload,
                     Append(envelope, step.record),
                     Append(log, [role |-> "envelope", index |-> k,
                                  message |-> step.message]),
                     prof))

\* SignedTransaction, but the reference block id is returned as it was encoded
SignedTransaction_PaddedRef(built_transaction, payload, envelope) ==
    [script |-> built_transaction.script,
     arguments |-> built_transaction.arguments,
     reference_block_id |->
         built_transaction.reference_block_id \o
         Zeros(Max(0, RefBlockWidth - Len(built_transaction.reference_block_id))),
     gas_limit |-> built_transaction.gas_limit,
     proposal_key |-> built_transaction.proposal_key,
     authorizers |-> built_transaction.authorizers,
     payload_signatures |-> payload,
     envelope_signatures |-> envelope,
     payer |-> built_transaction.payer]

\* lib.rs 812-822: the returned transaction
SignedTransaction(built_transaction, payload, envelope) ==
    [script |-> built_transaction.script,
     arguments |-> built_transaction.arguments,
     reference_block_id |-> built_transaction.reference_block_id,
     gas_limit |-> built_transaction.gas_limit,
     proposal_key |-> built_transaction.proposal_key,
     authorizers |-> built_transaction.authorizers,
     payload_signatures |-> payload,
     envelope_signatures |-> envelope,
     payer |-> built_transaction.payer]

\* sign_transaction, lib.rs 770-824.  status: "ok" is Ok(Some(tx)), "err" is
\* Err(error), "panic" and "abort" end the call without a return value
sign_transaction(built_transaction, payload_signatures, envelope_signatures, prof) ==
    With(PayloadLoop(built_transaction, payload_signatures, 1, <<>>, <<>>, prof),
    LAMBDA p :
        IF p.status # "ok"
        THEN [status |-> p.status, error |-> p.error, tx |-> NoTx, log |-> p.log]
        ELSE With(EnvelopeLoop(built_transaction, envelope_signatures, 1, p.sigs, <<>>,
                               p.log, prof),
             LAMBDA e :
                IF e.status # "ok"
                THEN [status |-> e.status, error |-> e.error, tx |-> NoTx, log |-> e.log]
                ELSE [status |-> "ok", error |-> "", log |-> e.log,
                      tx |-> SignedTransaction(built_transaction, p.sigs, e.sigs)]))

-----------------------------------------------------------------------------
(* Inputs *)

Addr8Hex == <<"f", "8", "d", "6", "e", "0", "5", "8", "6", "b", "0", "a", "2", "0", "c", "7">>
Addr8 == <<248, 214, 224, 88, 107, 10, 32, 199>>
Addr9 == <<1, 2, 3, 4, 5, 6, 7, 8, 9>>
Addr9Hex == [k \in 1..18 |-> IF k % 2 = 1 THEN "A" ELSE HexDigits[(k \div 2) + 1]]
ShortHex == <<"0", "1">>
BadHex == <<"0", "g">>
OddHex == <<"0", "1", "2">>

Ref32 == [k \in 1..32 |-> 160 + k]
Ref33 == [k \in 1..33 |-> k]
RefShort == <<1, 2>>

\* a script longer than 55 bytes (long-string form) and a one-byte script
LongScript == [k \in 1..56 |-> 96 + (k % 26)]
TinyScript == <<5>>

Arg1 == <<123, 125>>
Arg2 == <<91, 49, 93>>

Key1Hex == [k \in 1..64 |-> IF k = 64 THEN "1" ELSE "0"]
Key2Hex == [k \in 1..64 |-> HexDigits[(k % 16) + 1]]
BadHexKey == [k \in 1..64 |-> IF k = 3 THEN "x" ELSE "1"]

\* Sign { address, key_id, private_key }, lib.rs 647-651
Alice == [address |-> ShortHex, key_id |-> 1, private_key |-> Key1Hex]
Bob == [address |-> Addr8Hex, key_id |-> 0, private_key |-> Key2Hex]
BadKeySigner == [address |-> Addr8Hex, key_id |-> 2, private_key |-> BadHexKey]
BadAddrSigner == [address |-> BadHex, key_id |-> 4, private_key |-> Key1Hex]

Signers == {Alice, Bob, BadKeySigner, BadAddrSigner}

SignerLists == SeqsUpTo(Signers, MaxSigners)

BuildInput(script, arguments, ref, gas, proposer, authorizers, payer) ==
    [script |-> script, arguments |-> arguments, reference_block_id |-> ref,
     gas_limit |-> gas, proposer |-> proposer, authorizers |-> authorizers,
     payer |-> payer]

Proposer(address, key_id, seq) ==
    [address |-> address, key_id |-> key_id, sequence_number |-> seq]

\* the transactions that are signed in Spec
SignBuildInputs ==
    { BuildInput(LongScript, <<Arg1>>, Ref32, 9999, Proposer(Addr8, 0, 7),
                 <<Addr8Hex>>, Addr8Hex),
      BuildInput(TinyScript, <<>>, RefShort, 0, Proposer(<<1>>, 1, 300),
                 <<>>, ShortHex),
      BuildInput(TinyScript, <<Arg1, Arg2>>, Ref33, 1, Proposer(Addr8, 2, 0),
                 <<ShortHex, ShortHex>>, Addr8Hex) }

\* the transactions that are encoded in EncSpec
EncBuildInputs ==
    { BuildInput(sc, ar, rf, gs, pr, au, py) :
        sc \in {TinyScript, LongScript},
        ar \in {<<>>, <<Arg1, Arg2>>},
        rf \in {Ref32, RefShort, Ref33},
        gs \in {0, 1000},
        pr \in {Proposer(Addr8, 0, 300), Proposer(<<1>>, 1, 0), Proposer(Addr9, 2, 128)},
        au \in {<<>>, <<Addr8Hex, ShortHex, Addr8Hex>>, <<ShortHex, OddHex>>,
                 <<Addr9Hex>>},
        py \in {Addr8Hex, ShortHex, BadHex, Addr9Hex} }

\* TransactionSignature records handed to envelope_from_transaction in EncSpec
EncSignatures ==
    { [address |-> Addr8, key_id |-> 3, signature |-> EcdsaSign(<<1>>, <<1>>)],
      [address |-> Addr8, key_id |-> 0, signature |-> <<9>>],
      [address |-> <<1>>, key_id |-> 3, signature |-> <<>>] }

EncSignatureLists == SeqsUpTo(EncSignatures, MaxSigners)

NoEnc == [sigs |-> <<>>,
          payload |-> [status |-> "none", bytes |-> <<>>],
          envelope |-> [status |-> "none", bytes |-> <<>>]]

-----------------------------------------------------------------------------
(* Actions of the caller *)

\* the caller builds a transaction (build_transaction)
BuildTransaction(in) ==
    /\ pc = "start"
    /\ LET r == build_transaction(in.script, in.arguments, in.reference_block_id,
                                  in.gas_limit, in.proposer, in.authorizers, in.payer)
       IN /\ buildIn' = in
          /\ tx' = r.tx
          /\ pc' = IF r.status = "ok" THEN "built" ELSE "panicked"
    /\ UNCHANGED <<profile, argVars, pollVars, padVars, inTx, inPayload, inEnvelope, signedMsgs, enc>>

\* what one call of sign_transaction on the current transaction leaves behind:
\* the transaction is moved into the call, so only a returned one remains
CallSignTransaction(payload_signatures, envelope_signatures, done) ==
    \E r \in {sign_transaction(tx, payload_signatures, envelope_signatures, profile)} :
       /\ inTx' = tx
       /\ inPayload' = payload_signatures
       /\ inEnvelope' = envelope_signatures
       /\ signedMsgs' = r.log
       /\ tx' = r.tx
       /\ pc' = CASE r.status = "ok" -> done
                  [] r.status = "err" -> "failed"
                  [] OTHER -> "panicked"
       /\ UNCHANGED <<profile, argVars, pollVars, padVars, buildIn, enc>>

\* the caller signs a built transaction with both signer lists in one call
SignTransaction(payload_signatures, envelope_signatures) ==
    /\ pc = "built"
    /\ CallSignTransaction(payload_signatures, envelope_signatures, "signed")

\* the caller hands a transaction returned by a payload-only call back to
\* sign_transaction, with envelope signers only
SignEnvelopeStage(envelope_signatures) ==
    /\ pc = "signed"
    /\ inEnvelope = <<>>
    /\ CallSignTransaction(<<>>, envelope_signatures, "resigned")

\* the two encoders applied to a built transaction
Encode(sigs) ==
    /\ pc = "built"
    /\ enc' = [sigs |-> sigs,
               payload |-> payload_from_transaction(tx, profile),
               envelope |-> envelope_from_transaction(tx, sigs, profile)]
    /\ pc' = "encoded"
    /\ UNCHANGED <<profile, argVars, pollVars, padVars, buildIn, tx, inTx, inPayload, inEnvelope,
                   signedMsgs>>

-----------------------------------------------------------------------------
(* Argument::ufix64, lib.rs 595-602 *)

\* largest whole part and longest fraction of the f64 values tried
MaxWhole == 3
MaxFrac == 2

DecimalDigits == <<"0", "1", "2", "3", "4", "5", "6", "7", "8", "9">>

\* an f64: not a number, an infinity, or a finite value given by its sign bit,
\* its whole part and the digits of its fraction (no trailing zero)
NaN == [class |-> "nan", neg |-> FALSE, whole |-> 0, frac |-> <<>>]
Infinity(neg) == [class |-> "inf", neg |-> neg, whole |-> 0, frac |-> <<>>]
Finite(neg, whole, frac) == [class |-> "finite", neg |-> neg, whole |-> whole, frac |-> frac]

FracDigits == {0, 2, 5}

F64Values ==
    {NaN, Infinity(FALSE), Infinity(TRUE)} \cup
    { Finite(neg, whole, frac) :
        neg \in BOOLEAN, whole \in 0..MaxWhole,
        frac \in {f \in SeqsUpTo(FracDigits, MaxFrac) : f = <<>> \/ f[Len(f)] # 0} }

\* value >= 0.0 (lib.rs 597): false for NaN, true for both zeros
GeZero(value) ==
    CASE value.class = "nan" -> FALSE
      [] value.class = "inf" -> ~value.neg
      [] OTHER -> ~value.neg \/ (value.whole = 0 /\ value.frac = <<>>)

\* the decimal digits of a natural number
RECURSIVE NatToString(_)
NatToString(n) ==
    IF n < 10 THEN <<DecimalDigits[n + 1]>>
    ELSE Append(NatToString(n \div 10), DecimalDigits[(n % 10) + 1])

\* f64::to_string (lib.rs 600): the sign of a set sign bit, the whole part,
\* and the fraction when there is one; no exponent
F64ToString(value) ==
    CASE value.class = "nan" -> <<"N", "a", "N">>
      [] value.class = "inf" ->
            (IF value.neg THEN <<"-">> ELSE <<>>) \o <<"i", "n", "f">>
      [] OTHER ->
            (IF value.neg THEN <<"-">> ELSE <<>>) \o NatToString(value.whole) \o
            (IF value.frac = <<>> THEN <<>>
             ELSE <<".">> \o [k \in 1..Len(value.frac) |->
                                  DecimalDigits[value.frac[k] + 1]])

NoArgument == [none |-> TRUE, call |-> "ufix64"]

\* ufix64, but any value is accepted (the body of fix64, lib.rs 604-609, with
\* the tag of ufix64)
ufix64_Unchecked(value) ==
    [status |-> "ok", arg |-> [type |-> "UFix64", value |-> F64ToString(value)]]

\* Argument::ufix64, lib.rs 596-602: the assert! panics, in every build
ufix64(value) ==
    IF ~GeZero(value)
    THEN [status |-> "panic", arg |-> NoArgument]
    ELSE [status |-> "ok", arg |-> [type |-> "UFix64", value |-> F64ToString(value)]]

\* a caller constructs a UFix64 argument
Ufix64(value) ==
    /\ uf_pc = "idle"
    /\ \E r \in {ufix64(value)} :
          /\ uf_value' = value
          /\ uf_arg' = r.arg
          /\ uf_pc' = IF r.status = "ok" THEN "returned" ELSE "panicked"
    /\ UNCHANGED <<profile, padVars, txVars, pollVars>>

-----------------------------------------------------------------------------
(* FlowConnection::create_account, lib.rs 249-292: polling for the result *)

\* largest status and status_code the node reports in the runs
MaxStatus == 5
MaxStatusCode == 2

MaxPolls == 50
InitialDelay == 50
DelayStep == 200

\* TransactionResultResponse: status and status_code are integers of the
\* protocol; a status below 0 or above 4 names no transaction status
Statuses == (-1)..MaxStatus
Results == [status : Statuses, status_code : 0..MaxStatusCode]
NoResult == [none |-> TRUE, call |-> "get_transaction_result"]

\* what lib.rs 266-281 can meet after a sealed result, before get_account is
\* called: no flow.AccountCreated event among the events (unwrap, 272), an
\* event payload that is no JSON (from_slice ?, 273), an address text too
\* short to cut (split_at, 276-279)
EventOutcomes == {"ok", "no_event", "bad_json", "bad_address"}

\* what get_account(&address).await can give (282-286): the account, an error
\* (?, 284), a response without account (expect, 286)
AccountOutcomes == {"ok", "lookup_err", "no_account"}

\* where the call is after lib.rs 266-281: on the way to get_account, or ended
EventEnd(event) ==
    CASE event = "ok" -> [pc |-> "looking_up", lookup |-> "pending", err |-> ""]
      [] event = "bad_json" -> [pc |-> "failed", lookup |-> event, err |-> event]
      [] OTHER -> [pc |-> "panicked", lookup |-> event, err |-> ""]

\* where the call is after get_account has answered, lib.rs 282-287
AccountEnd(outcome) ==
    CASE outcome = "ok" -> [pc |-> "returned", err |-> ""]
      [] outcome = "lookup_err" -> [pc |-> "failed", err |-> outcome]
      [] OTHER -> [pc |-> "panicked", err |-> ""]

\* the loop condition with one more round
PollAgain_Inclusive(i) == i <= MaxPolls

\* lib.rs 253: while i < 50
PollAgain(i) == i < MaxPolls

\* lib.rs 257-281: match res.status, up to the call of get_account
MatchStatus(res, event, time) ==
    CASE res.status \in 0..3 ->
            [pc |-> "loop", time |-> time + DelayStep, lookup |-> "none", err |-> ""]
      [] res.status = 4 ->
            IF res.status_code = 1
            THEN [pc |-> "failed", time |-> time, lookup |-> "none",
                  err |-> "Error during execution"]
            ELSE [pc |-> EventEnd(event).pc, time |-> time,
                  lookup |-> EventEnd(event).lookup, err |-> EventEnd(event).err]
      [] OTHER ->
            [pc |-> "failed", time |-> time, lookup |-> "none",
             err |-> "Cadence Runtime Error"]

\* lib.rs 250-252: the transaction is sent, the loop is entered
PollStart ==
    /\ poll_pc = "idle"
    /\ poll_pc' = "loop"
    /\ poll_i' = 0
    /\ poll_time' = InitialDelay
    /\ UNCHANGED <<profile, padVars, txVars, argVars, poll_queries, poll_res,
                   poll_lookup, poll_err>>

\* lib.rs 253-255: a round begins, i += 1, and the call suspends in sleep
PollBeginRound ==
    /\ poll_pc = "loop"
    /\ PollAgain(poll_i)
    /\ poll_i' = poll_i + 1
    /\ poll_pc' = "sleeping"
    /\ UNCHANGED <<profile, padVars, txVars, argVars, poll_queries, poll_time,
                   poll_res, poll_lookup, poll_err>>

\* lib.rs 255-256: the sleep is over, get_transaction_result is called and
\* the call suspends until the node answers
PollQuery ==
    /\ poll_pc = "sleeping"
    /\ poll_pc' = "querying"
    /\ poll_queries' = poll_queries + 1
    /\ UNCHANGED <<profile, padVars, txVars, argVars, poll_i, poll_time, poll_res,
                   poll_lookup, poll_err>>

\* lib.rs 256-281, 289: the node answers with res; the match, up to the next
\* suspension (the loop head's sleep or get_account) or the end of the call
PollAnswer(res, event) ==
    /\ poll_pc = "querying"
    /\ poll_res' = res
    /\ \E m \in {MatchStatus(res, event, poll_time)} :
          /\ poll_pc' = m.pc
          /\ poll_time' = m.time
          /\ poll_lookup' = m.lookup
          /\ poll_err' = m.err
    /\ UNCHANGED <<profile, padVars, txVars, argVars, poll_i, poll_queries>>

\* lib.rs 256: get_transaction_result fails (?)
PollQueryError ==
    /\ poll_pc = "querying"
    /\ poll_pc' = "failed"
    /\ poll_err' = "get_transaction_result"
    /\ UNCHANGED <<profile, padVars, txVars, argVars, poll_i, poll_queries, poll_time,
                   poll_res, poll_lookup>>

\* lib.rs 282-287: get_account answers
PollAccount(outcome) ==
    /\ poll_pc = "looking_up"
    /\ poll_lookup' = outcome
    /\ poll_pc' = AccountEnd(outcome).pc
    /\ poll_err' = AccountEnd(outcome).err
    /\ UNCHANGED <<profile, padVars, txVars, argVars, poll_i, poll_queries, poll_time,
                   poll_res>>

\* the caller drops the future while it is suspended at an .await (255, 256,
\* 284), as tokio::time::timeout does
PollCancel ==
    /\ poll_pc \in {"sleeping", "querying", "looking_up"}
    /\ poll_pc' = "cancelled"
    /\ UNCHANGED <<profile, padVars, txVars, argVars, poll_i, poll_queries, poll_time,
                   poll_res, poll_lookup, poll_err>>

\* lib.rs 253, 292: the loop ends without a final result
PollGiveUp ==
    /\ poll_pc = "loop"
    /\ ~PollAgain(poll_i)
    /\ poll_pc' = "failed"
    /\ poll_err' = "Could not produce result"
    /\ UNCHANGED <<profile, padVars, txVars, argVars, poll_i, poll_queries, poll_time,
                   poll_res, poll_lookup>>

-----------------------------------------------------------------------------
(* Specifications *)

Init ==
    /\ profile \in {"debug", "release"}
    /\ pad_pc = "idle"
    /\ pad_arg = NoArg
    /\ pad_vec = <<>>
    /\ pad_i = ToUsize(0)
    /\ pc = "start"
    /\ buildIn = NoIn
    /\ tx = NoTx
    /\ inTx = NoTx
    /\ inPayload = <<>>
    /\ inEnvelope = <<>>
    /\ signedMsgs = <<>>
    /\ enc = NoEnc
    /\ uf_pc = "idle"
    /\ uf_value = NaN
    /\ uf_arg = NoArgument
    /\ poll_pc = "idle"
    /\ poll_i = 0
    /\ poll_queries = 0
    /\ poll_time = 0
    /\ poll_res = NoResult
    /\ poll_lookup = "none"
    /\ poll_err = ""

\* build, then sign
Next ==
    \/ \E in \in SignBuildInputs : BuildTransaction(in)
    \/ \E ps \in SignerLists, es \in SignerLists : SignTransaction(ps, es)
    \/ \E es \in SignerLists : SignEnvelopeStage(es)

Spec == Init /\ [][Next]_vars

\* build, then encode
EncNext ==
    \/ \E in \in EncBuildInputs : BuildTransaction(in)
    \/ \E sigs \in EncSignatureLists : Encode(sigs)

EncSpec == Init /\ [][EncNext]_vars

\* one call of padding()
PadNext ==
    \/ \E b \in SeqsUpTo(PadBytes, MaxLen), w \in 0..MaxWidth : PadCall(b, w)
    \/ PadPush
    \/ PadReturn

PadSpec == Init /\ [][PadNext]_vars

\* one call of Argument::ufix64
ArgNext == \E value \in F64Values : Ufix64(value)

ArgSpec == Init /\ [][ArgNext]_vars

\* the polling of create_account
PollNext ==
    \/ PollStart
    \/ PollBeginRound
    \/ PollQuery
    \/ \E res \in Results, event \in EventOutcomes : PollAnswer(res, event)
    \/ PollQueryError
    \/ \E outcome \in AccountOutcomes : PollAccount(outcome)
    \/ PollCancel
    \/ PollGiveUp

PollSpec == Init /\ [][PollNext]_vars

\* the executor polls the future again after each suspension, every sleep
\* ends and every request is answered or fails, unless the caller drops the
\* future: a step that can be taken is taken
PollFairSpec == PollSpec /\ WF_vars(PollNext)

-----------------------------------------------------------------------------
(* Reading an encoding back: the nested lists a canonical encoding stands for *)

Str(val) == [kind |-> "str", val |-> val]
List(items) == [kind |-> "list", items |-> items]
Malformed == [kind |-> "malformed"]

RECURSIVE FromBeBytes(_)
FromBeBytes(b) ==
    IF b = <<>> THEN 0 ELSE 256 * FromBeBytes(SubSeq(b, 1, Len(b) - 1)) + b[Len(b)]

\* the item whose header byte is bytes[p]: its kind, where its content starts
\* and how long it is
RlpHeader(bytes, p) ==
    LET x == bytes[p]
        long == IF x >= 248 THEN x - 247 ELSE x - 183
    IN IF x < 128 THEN [list |-> FALSE, start |-> p, len |-> 1]
       ELSE IF x <= 183 THEN [list |-> FALSE, start |-> p + 1, len |-> x - 128]
       ELSE IF x >= 192 /\ x <= 247 THEN [list |-> TRUE, start |-> p + 1, len |-> x - 192]
       ELSE [list |-> x >= 248, start |-> p + 1 + long,
             len |-> FromBeBytes(SubSeq(bytes, p + 1, Min(p + long, Len(bytes))))]

\* the items encoded in bytes[lo..hi], one after the other
RECURSIVE RlpItems(_, _, _)
RlpItems(bytes, lo, hi) ==
    IF lo > hi THEN <<>>
    ELSE With(RlpHeader(bytes, lo), LAMBDA h :
            IF h.start + h.len - 1 > hi THEN <<Malformed>>
            ELSE <<IF h.list
                   THEN List(RlpItems(bytes, h.start, h.start + h.len - 1))
                   ELSE Str(SubSeq(bytes, h.start, h.start + h.len - 1))>>
                 \o RlpItems(bytes, h.start + h.len, hi))

\* the one item a complete encoding holds
RlpDecode(bytes) ==
    With(RlpItems(bytes, 1, Len(bytes)), LAMBDA items :
        IF Len(items) = 1 THEN items[1] ELSE Malformed)

-----------------------------------------------------------------------------
(* Vocabulary of the properties *)

\* out is orig brought to width w with zero bytes, at either end
PaddedTo(out, orig, w) ==
    /\ Len(orig) <= w
    /\ Len(out) = w
    /\ \/ out = orig \o Zeros(w - Len(orig))
       \/ out = Zeros(w - Len(orig)) \o orig

\* the 32 bytes every signed message starts with
PaddedTag == DomainTag \o Zeros(TagWidth - Len(DomainTag))

WellFormedKey(private_key) ==
    /\ FromHex(private_key).status = "ok"
    /\ ValidSecretKey(FromHex(private_key).bytes)

WellFormedAddress(address) == FromHex(address).status = "ok"

WellFormed(signer) ==
    /\ WellFormedKey(signer.private_key)
    /\ WellFormedAddress(signer.address)
    /\ Len(FromHex(signer.address).bytes) <= AddressWidth

AllWellFormed(signers) == \A k \in 1..Len(signers) : WellFormed(signers[k])

\* no padded field of the transaction is wider than its width
InWidth(t) ==
    /\ Len(t.reference_block_id) <= RefBlockWidth
    /\ Len(t.proposal_key.address) <= AddressWidth

\* sign_transaction has been called / has returned a transaction
Called == inTx # NoTx
Returned == pc \in {"signed", "resigned"}

LogOf(role) == SelectSeq(signedMsgs, LAMBDA m : m.role = role)

\* the signature the k-th signer of signers makes over message
SignatureOf(signers, k, message) ==
    EcdsaSign(FromHex(signers[k].private_key).bytes, message)

\* records are the signature records of signers, in their order, over message
RecordsOf(records, signers, message) ==
    /\ Len(records) = Len(signers)
    /\ \A k \in 1..Len(signers) :
          /\ PaddedTo(records[k].address, FromHex(signers[k].address).bytes, AddressWidth)
          /\ records[k].key_id = signers[k].key_id
          /\ records[k].signature = SignatureOf(signers, k, message)

\* the message the payload signers of the last call have to sign
PayloadMessage == PaddedTag \o payload_from_transaction(inTx, profile).bytes

\* the message the envelope signers of the last call have to sign, given the
\* payload signatures it covers
EnvelopeMessage(sigs) == PaddedTag \o envelope_from_transaction(inTx, sigs, profile).bytes

-----------------------------------------------------------------------------
(* Properties of sign_transaction (Spec) *)

\* C1: a call of sign_transaction whose credentials are all well-formed returns
\* a transaction (also with no payload signer at all), and the transaction a
\* call returns has one payload signature record per payload signer, in input
\* order, each with the signer's address padded to 8 bytes, the signer's key
\* index, and the signer's signature over the padded domain tag followed by
\* the payload encoding; every payload signer signs that same message.
C1_PayloadSignatures ==
    Called =>
        /\ (AllWellFormed(inPayload) /\ AllWellFormed(inEnvelope) /\ InWidth(inTx))
              => Returned
        /\ Returned =>
              /\ RecordsOf(tx.payload_signatures, inPayload, PayloadMessage)
              /\ Len(LogOf("payload")) = Len(inPayload)
              /\ \A k \in 1..Len(LogOf("payload")) :
                    LogOf("payload")[k].message = PayloadMessage

\* two different payload signers have signed and the transaction is returned
C1_Witness ==
    /\ pc = "signed"
    /\ Len(inPayload) = 2
    /\ inPayload[1] # inPayload[2]
    /\ Len(tx.payload_signatures) = 2

\* the nested lists of the message an envelope signer signed
EnvelopeItems(message) == RlpDecode(SubSeq(message, TagWidth + 1, Len(message)))

\* C2: the transaction a call returns has one envelope signature record per
\* envelope signer, in input order, with the signer's padded address and key
\* index; each envelope signer signs the padded domain tag followed by the
\* envelope encoding, a 2-element list of the transaction body and of all n
\* payload signatures of the call in order: not the body alone, no prefix of
\* the payload signatures, and no envelope signature.
C2_EnvelopeSignatures ==
    (Called /\ Returned) =>
        /\ Len(tx.payload_signatures) = Len(inPayload)
        /\ RecordsOf(tx.envelope_signatures, inEnvelope,
                     EnvelopeMessage(tx.payload_signatures))
        /\ Len(LogOf("envelope")) = Len(inEnvelope)
        /\ \A j \in 1..Len(LogOf("envelope")) :
              LET message == LogOf("envelope")[j].message
                  items == EnvelopeItems(message)
              IN /\ message = EnvelopeMessage(tx.payload_signatures)
                 /\ items.kind = "list"
                 /\ Len(items.items) = 2
                 /\ items.items[1] =
                       RlpDecode(payload_from_transaction(inTx, profile).bytes)
                 /\ items.items[2].kind = "list"
                 /\ Len(items.items[2].items) = Len(inPayload)
                 /\ \A k \in 1..Len(inPayload) :
                       /\ items.items[2].items[k].kind = "list"
                       /\ Len(items.items[2].items[k].items) = 3
                       /\ items.items[2].items[k].items[3] =
                             Str(tx.payload_signatures[k].signature)

\* two envelope signers have signed over two payload signatures
C2_Witness ==
    /\ pc = "signed"
    /\ Len(inPayload) = 2
    /\ Len(inEnvelope) = 2
    /\ inEnvelope[1] # inEnvelope[2]
    /\ Len(tx.envelope_signatures) = 2

\* C3: when sign_transaction is called with payload signers only and then, on
\* the transaction it returned, with envelope signers only, the final
\* transaction still carries the payload signatures of the first call, and
\* the envelope signers have signed over them.
C3_TwoStageSigning ==
    pc = "resigned" =>
        /\ tx.payload_signatures = inTx.payload_signatures
        /\ \A j \in 1..Len(LogOf("envelope")) :
              LogOf("envelope")[j].message = EnvelopeMessage(inTx.payload_signatures)

\* C4: in every envelope encoding that is signed, the list of signature triples
\* has one triple per payload signer, and the k-th triple (k from 0) is
\* [k, key index of the k-th payload signer, signature of the k-th payload
\* signature], whatever the key indices are.
C4_PositionalIndex ==
    (Called /\ Returned) =>
        \A j \in 1..Len(LogOf("envelope")) :
            LET triples == EnvelopeItems(LogOf("envelope")[j].message).items[2]
            IN /\ triples.kind = "list"
               /\ Len(triples.items) = Len(inPayload)
               /\ \A k \in 1..Len(inPayload) :
                     triples.items[k] =
                        List(<<Str(ToBeBytes(k - 1)),
                               Str(ToBeBytes(inPayload[k].key_id)),
                               Str(tx.payload_signatures[k].signature)>>)

\* an envelope was signed over two payload signatures whose key indices are
\* in descending order, so that position and key index differ
C4_Witness ==
    /\ pc = "signed"
    /\ Len(inPayload) = 2
    /\ inPayload[1].key_id > inPayload[2].key_id
    /\ Len(LogOf("envelope")) >= 1

\* C9: every message sign_transaction signs starts with the 21 bytes of
\* "FLOW-V0.0-transaction" followed by 11 zero bytes; the canonical encoding
\* (payload encoding for a payload signer, envelope encoding for an envelope
\* signer) starts at offset 32 and ends the message, and a returned call has
\* signed one message per signer and nothing else.
C9_DomainTag ==
    /\ \A k \in 1..Len(signedMsgs) :
          LET message == signedMsgs[k].message
              rest == SubSeq(message, 33, Len(message))
          IN /\ Len(message) > 32
             /\ Len(DomainTag) = 21
             /\ SubSeq(message, 1, 21) = DomainTag
             /\ SubSeq(message, 22, 32) = Zeros(11)
             /\ IF signedMsgs[k].role = "payload"
                THEN rest = payload_from_transaction(inTx, profile).bytes
                ELSE /\ RlpDecode(rest).kind = "list"
                     /\ Len(RlpDecode(rest).items) = 2
                     /\ RlpDecode(rest).items[1] =
                           RlpDecode(payload_from_transaction(inTx, profile).bytes)
    /\ (Called /\ Returned) => Len(signedMsgs) = Len(inPayload) + Len(inEnvelope)

\* a payload signer and an envelope signer have both signed
C9_Witness ==
    /\ pc = "signed"
    /\ Len(LogOf("payload")) >= 1
    /\ Len(LogOf("envelope")) >= 1

\* some credential of the last call has a malformed key or a malformed address
SomeMalformed(signers) ==
    \E k \in 1..Len(signers) :
        ~WellFormedKey(signers[k].private_key) \/ ~WellFormedAddress(signers[k].address)

\* C10: a call of sign_transaction in which some credential has a malformed
\* private key or a malformed hex address returns an error value to its
\* caller, and no transaction.
C10_MalformedCredentialIsError ==
    (Called /\ InWidth(inTx) /\ SomeMalformed(inPayload \o inEnvelope)) =>
        /\ pc = "failed"
        /\ tx = NoTx

-----------------------------------------------------------------------------
(* Properties of the two encodings (EncSpec) *)

\* item is a byte string holding orig padded to width w
PaddedItem(item, orig, w) == item.kind = "str" /\ PaddedTo(item.val, orig, w)

\* C5: payload_from_transaction encodes the 9-element list [script, argument
\* blobs, reference block id, gas limit, proposer address, proposer key index,
\* proposer sequence number, payer address, authorizer addresses], in which the
\* reference block id has exactly 32 bytes and the proposer address, the payer
\* address and every authorizer address have exactly 8 bytes, shorter values
\* being zero-padded; empty lists are encoded as empty lists.
C5_PayloadEncoding ==
    (pc = "encoded" /\ enc.payload.status = "ok") =>
        LET items == RlpDecode(enc.payload.bytes)
        IN /\ items.kind = "list"
           /\ Len(items.items) = 9
           /\ items.items[1] = Str(tx.script)
           /\ items.items[2] = List([k \in 1..Len(tx.arguments) |-> Str(tx.arguments[k])])
           /\ PaddedItem(items.items[3], tx.reference_block_id, RefBlockWidth)
           /\ items.items[4] = Str(ToBeBytes(tx.gas_limit))
           /\ PaddedItem(items.items[5], tx.proposal_key.address, AddressWidth)
           /\ items.items[6] = Str(ToBeBytes(tx.proposal_key.key_id))
           /\ items.items[7] = Str(ToBeBytes(tx.proposal_key.sequence_number))
           /\ PaddedItem(items.items[8], tx.payer, AddressWidth)
           /\ items.items[9].kind = "list"
           /\ Len(items.items[9].items) = Len(tx.authorizers)
           /\ \A k \in 1..Len(tx.authorizers) :
                 PaddedItem(items.items[9].items[k], tx.authorizers[k], AddressWidth)

\* C6: envelope_from_transaction(tx, S) encodes a 2-element list whose first
\* element is, item for item, the 9-element list payload_from_transaction(tx)
\* encodes, and whose second element is a list of one 3-element list per
\* record of S (an empty list when S is empty); the one succeeds exactly when
\* the other does.
C6_EnvelopeWrapsPayload ==
    pc = "encoded" =>
        /\ (enc.envelope.status = "ok") <=> (enc.payload.status = "ok")
        /\ enc.envelope.status = "ok" =>
              LET outer == RlpDecode(enc.envelope.bytes)
                  body == RlpDecode(enc.payload.bytes)
              IN /\ outer.kind = "list"
                 /\ Len(outer.items) = 2
                 /\ body.kind = "list"
                 /\ Len(body.items) = 9
                 /\ outer.items[1] = body
                 /\ outer.items[2].kind = "list"
                 /\ Len(outer.items[2].items) = Len(enc.sigs)
                 /\ \A k \in 1..Len(enc.sigs) :
                       /\ outer.items[2].items[k].kind = "list"
                       /\ Len(outer.items[2].items[k].items) = 3

\* an envelope over two signature records has been encoded, for a transaction
\* whose payer is shorter than 8 bytes
C6_Witness ==
    /\ pc = "encoded"
    /\ enc.envelope.status = "ok"
    /\ Len(enc.sigs) = 2
    /\ Len(tx.payer) < AddressWidth

-----------------------------------------------------------------------------
(* Properties of padding (PadSpec) *)

\* the step-by-step run of padding() ends as the whole call is computed to end
PadAgrees ==
    pad_pc \in {"returned", "aborted", "panicked"} =>
        padding(pad_arg.vec, pad_arg.count, profile) =
            [status |-> CASE pad_pc = "returned" -> "ok"
                          [] pad_pc = "aborted" -> "abort"
                          [] OTHER -> "panic",
             vec |-> pad_vec]

\* C7: padding(b, w) with len(b) <= w leaves a vector of exactly w bytes whose
\* last len(b) bytes are b and whose first w - len(b) bytes are zero.
C7_ZerosPrepended ==
    (pad_pc = "returned" /\ Len(pad_arg.vec) <= pad_arg.count) =>
        LET b == pad_arg.vec
            w == pad_arg.count
        IN /\ Len(pad_vec) = w
           /\ SubSeq(pad_vec, w - Len(b) + 1, w) = b
           /\ SubSeq(pad_vec, 1, w - Len(b)) = Zeros(w - Len(b))

\* C8: padding(b, w) with len(b) > w stops at once as a precondition
\* violation: it never gets to its loop with a wrapped count and never adds a
\* byte to b.
C8_OverflowFailsLoudly ==
    (pad_pc # "idle" /\ Len(pad_arg.vec) > pad_arg.count) =>
        /\ pad_pc = "panicked"
        /\ pad_vec = pad_arg.vec

-----------------------------------------------------------------------------
(* build_transaction *)

\* build_transaction has been called / has returned a transaction
Built == buildIn # NoIn
BuildReturned == pc \in {"built", "encoded"}

\* lower-case hex of a byte string (hex::encode)
HexOf(bytes) ==
    [k \in 1..(2 * Len(bytes)) |->
        IF k % 2 = 1 THEN HexDigits[(bytes[(k + 1) \div 2] \div 16) + 1]
        ELSE HexDigits[(bytes[k \div 2] % 16) + 1]]

\* a hex string with its letters in lower case
Lower(s) == [k \in 1..Len(s) |-> HexDigits[HexVal(s[k]) + 1]]

WellFormedHex(s) == Len(s) % 2 = 0 /\ \A k \in 1..Len(s) : IsHexChar(s[k])

\* the payer and every authorizer of a build input are well-formed hex
WellFormedInput(in) ==
    /\ WellFormedHex(in.payer)
    /\ \A k \in 1..Len(in.authorizers) : WellFormedHex(in.authorizers[k])

\* some field of a build input is wider than the encoders allow
OverWidthInput(in) ==
    \/ Len(in.reference_block_id) > RefBlockWidth
    \/ Len(in.proposer.address) > AddressWidth
    \/ Len(in.payer) > 2 * AddressWidth
    \/ \E k \in 1..Len(in.authorizers) : Len(in.authorizers[k]) > 2 * AddressWidth

\* C11: field widths are validated when the transaction is built:
\* build_transaction returns no transaction for a proposer, payer or authorizer
\* address longer than 8 bytes or a reference block id longer than 32 bytes,
\* so no built transaction holds an over-width field and no encoder fails on
\* the width of a field later.
C11_EagerWidthValidation ==
    /\ (Built /\ OverWidthInput(buildIn)) => ~BuildReturned
    /\ BuildReturned =>
           /\ InWidth(tx)
           /\ Len(tx.payer) <= AddressWidth
           /\ \A k \in 1..Len(tx.authorizers) : Len(tx.authorizers[k]) <= AddressWidth
    /\ pc = "encoded" => enc.payload.status = "ok" /\ enc.envelope.status = "ok"

\* C12: build_transaction given a malformed hex string as payer or as an
\* authorizer returns an error value to its caller: the call does not abort
\* and leaves no transaction.
C12_MalformedHexIsError ==
    (Built /\ ~WellFormedInput(buildIn)) => (pc = "failed" /\ tx = NoTx)

\* C13: build_transaction given well-formed hex addresses returns an unsigned
\* transaction: script, arguments, reference block id, gas limit and proposer
\* are the inputs, the authorizers are the decoded inputs, as many and in the
\* same order, the payer is the decoded input, and both signature lists are
\* empty.
C13_BuildUnsigned ==
    (Built /\ WellFormedInput(buildIn)) =>
        /\ BuildReturned
        /\ tx.script = buildIn.script
        /\ tx.arguments = buildIn.arguments
        /\ tx.reference_block_id = buildIn.reference_block_id
        /\ tx.gas_limit = buildIn.gas_limit
        /\ tx.proposal_key = buildIn.proposer
        /\ Len(tx.authorizers) = Len(buildIn.authorizers)
        /\ \A k \in 1..Len(buildIn.authorizers) :
               HexOf(tx.authorizers[k]) = Lower(buildIn.authorizers[k])
        /\ HexOf(tx.payer) = Lower(buildIn.payer)
        /\ tx.payload_signatures = <<>>
        /\ tx.envelope_signatures = <<>>

\* a transaction built from three authorizers, the first and the last the same
C13_Witness ==
    /\ pc = "built"
    /\ Len(buildIn.authorizers) = 3
    /\ buildIn.authorizers[1] = buildIn.authorizers[3]
    /\ buildIn.authorizers[1] # buildIn.authorizers[2]
    /\ Len(tx.authorizers) = 3
    /\ buildIn.payer = Addr9Hex

-----------------------------------------------------------------------------
(* sign_transaction: what it keeps, and the order of the signers *)

\* C14: a transaction returned by sign_transaction has the script, arguments,
\* reference block id, gas limit, proposal key (address, key index, sequence
\* number), authorizers and payer of the transaction the call received.
C14_CoreFieldsKept ==
    Returned =>
        /\ tx.script = inTx.script
        /\ tx.arguments = inTx.arguments
        /\ tx.reference_block_id = inTx.reference_block_id
        /\ tx.gas_limit = inTx.gas_limit
        /\ tx.proposal_key.address = inTx.proposal_key.address
        /\ tx.proposal_key.key_id = inTx.proposal_key.key_id
        /\ tx.proposal_key.sequence_number = inTx.proposal_key.sequence_number
        /\ tx.authorizers = inTx.authorizers
        /\ tx.payer = inTx.payer

\* a signed transaction whose padded fields are narrower than their widths and
\* whose two signature lists both changed
C14_Witness ==
    /\ pc = "signed"
    /\ Len(inTx.reference_block_id) < RefBlockWidth
    /\ Len(inTx.proposal_key.address) < AddressWidth
    /\ tx.payload_signatures # inTx.payload_signatures
    /\ tx.envelope_signatures # inTx.envelope_signatures

\* the (key index, signature) pair of a signature record
PairOf(record) == <<record.key_id, record.signature>>

\* the messages a call handed to sign() for the signers of a role
MessagesOf(log, role) ==
    {log[k].message : k \in {j \in 1..Len(log) : log[j].role = role}}

\* C15: when a call with two payload signers has returned, the same call with
\* the two payload signers swapped returns as well; the payload signers sign
\* the same message in both orders, and if the (key index, signature) pairs of
\* the two differ, the envelope encoding differs between the two orders and so
\* does every message an envelope signer signs.
C15_SignerOrder ==
    (pc = "signed" /\ Len(inPayload) = 2) =>
        With(sign_transaction(inTx, <<inPayload[2], inPayload[1]>>, inEnvelope, profile),
        LAMBDA swapped :
            /\ swapped.status = "ok"
            /\ MessagesOf(swapped.log, "payload") = MessagesOf(signedMsgs, "payload")
            /\ Cardinality(MessagesOf(signedMsgs, "payload")) = 1
            /\ PairOf(tx.payload_signatures[1]) # PairOf(tx.payload_signatures[2]) =>
                  /\ envelope_from_transaction(inTx, swapped.tx.payload_signatures,
                                                profile).bytes
                        # envelope_from_transaction(inTx, tx.payload_signatures,
                                                    profile).bytes
                  /\ MessagesOf(swapped.log, "envelope") \cap
                        MessagesOf(signedMsgs, "envelope") = {})

\* a call with two payload signers of different key indices and an envelope
\* signer has returned
C15_Witness ==
    /\ pc = "signed"
    /\ Len(inPayload) = 2
    /\ PairOf(tx.payload_signatures[1]) # PairOf(tx.payload_signatures[2])
    /\ inEnvelope # <<>>

-----------------------------------------------------------------------------
(* Argument::ufix64 *)

\* an f64 below zero / equal to zero (0.0 == -0.0)
IsNegative(value) ==
    /\ value.class # "nan"
    /\ value.neg
    /\ ~(value.class = "finite" /\ value.whole = 0 /\ value.frac = <<>>)

IsZero(value) == value.class = "finite" /\ value.whole = 0 /\ value.frac = <<>>

\* C16: Argument::ufix64 called with a negative value returns an error
\* (InvalidArgument) to its caller and constructs no argument; called with
\* zero it returns the argument with type tag "UFix64" and value "0".
C16_Ufix64 ==
    /\ (uf_pc # "idle" /\ IsNegative(uf_value)) =>
           (uf_pc = "failed" /\ uf_arg = NoArgument)
    /\ (uf_pc # "idle" /\ IsZero(uf_value)) =>
           (uf_pc = "returned" /\ uf_arg = [type |-> "UFix64", value |-> <<"0">>])

-----------------------------------------------------------------------------
(* create_account: the polling loop *)

Pending(res) == res.status \in 0..3

\* the call has ended: an account, an error, a panic, or the future dropped
PollDone == poll_pc \in {"returned", "failed", "panicked", "cancelled"}

\* the rounds whose query the node has answered
Answered == IF poll_pc \in {"sleeping", "querying"} THEN poll_i - 1 ELSE poll_i

\* what holds of every state of the polling
PollInv ==
    /\ poll_queries <= MaxPolls
    /\ poll_queries <= poll_i
    /\ poll_i <= MaxPolls
    /\ poll_pc \in {"loop", "sleeping", "querying"} =>
          /\ poll_time = InitialDelay + DelayStep * Answered
          /\ Answered > 0 => Pending(poll_res)
    /\ poll_pc = "returned" =>
          /\ poll_res # NoResult
          /\ poll_res.status = 4
          /\ poll_res.status_code # 1
    /\ (PollDone /\ poll_err = "Could not produce result") =>
          /\ poll_queries = MaxPolls
          /\ Pending(poll_res)

\* what holds of every step of the polling: a query that is answered sends
\* the call back to the loop, with a delay 200 ms longer, exactly when the
\* status is 0, 1, 2 or 3; on status 4 it ends the polling, with an error when
\* status_code is 1 and with the lookup of the account otherwise, whose
\* account is returned when the lookup succeeds; on any other status it ends
\* the call with an error.  After 50 rounds the call ends with "Could not
\* produce result".  A query is made only after a sleep, and none is made
\* once a final result has been received.
PollStep ==
    /\ (poll_pc = "querying" /\ poll_pc' \notin {"querying", "cancelled"}
            /\ poll_err' # "get_transaction_result") =>
          CASE Pending(poll_res') ->
                  /\ poll_pc' = "loop"
                  /\ poll_time' = poll_time + DelayStep
            [] poll_res'.status = 4 /\ poll_res'.status_code = 1 ->
                  /\ poll_pc' = "failed"
                  /\ poll_err' = "Error during execution"
            [] poll_res'.status = 4 /\ poll_res'.status_code # 1 ->
                  /\ poll_pc' \in {"looking_up", "failed", "panicked"}
                  /\ poll_lookup' # "none"
                  /\ poll_pc' = "looking_up" <=> poll_lookup' = "pending"
            [] OTHER ->
                  /\ poll_pc' = "failed"
                  /\ poll_err' = "Cadence Runtime Error"
    /\ poll_pc = "looking_up" =>
          /\ PollDone'
          /\ poll_pc' = "returned" <=> poll_lookup' = "ok"
    /\ poll_pc' = "returned" => poll_pc = "looking_up"
    /\ (poll_pc = "loop" /\ poll_i = MaxPolls) =>
          /\ poll_pc' = "failed"
          /\ poll_err' = "Could not produce result"
    /\ poll_queries' # poll_queries =>
          /\ poll_pc = "sleeping"
          /\ poll_queries' = poll_queries + 1
    /\ PollDone => UNCHANGED pollVars

\* C17: the polling loop of create_account ends whatever the node reports:
\* it asks for the result at most 50 times; statuses 0 to 3 are pending (the
\* delay grows by 200 ms and the loop goes on), status 4 is final (an error
\* when status_code is 1, otherwise the account is looked up and returned),
\* any other status ends the call with an error, 50 pending results end it
\* with "Could not produce result", and an account is returned only after a
\* result of status 4 whose status_code is not 1.
C17_PollingTerminates == []PollInv /\ [][PollStep]_vars /\ <>PollDone

\* the account is returned on the 50th and last query, after 49 pending results
C17_Witness ==
    /\ poll_pc = "returned"
    /\ poll_queries = MaxPolls
    /\ poll_time = InitialDelay + DelayStep * (MaxPolls - 1)

====
